---- MODULE Spec2Model ----
(***************************************************************************)
(* Variable-subset selection: exhaustive_search, forward_selection and     *)
(* backward_elimination of selection/feature_selection.py, with the        *)
(* caller-supplied train_model / score_model callbacks.                    *)
(***************************************************************************)
EXTENDS Integers, Sequences, FiniteSets, TLC

\* ------------------------------------------------------------------ bounds
\* Scores of the general scorer are drawn from 0..MaxScore.
MaxScore == 2
\* Weights of the weight-sum scorer are drawn from -MaxWeight..MaxWeight.
MaxWeight == 2
\* Largest number of variables of a weight-sum input (the test's own input aside).
MaxWVars == 3

\* Variable names of the general inputs, in a fixed listing order.
VarList == <<"a", "b", "c">>
\* Variable names of the unit test, in its listing order.
TestVariables == <<"a", "b", "c", "d", "e">>
\* The unit test's weights.
TestMaps == [v \in {"a", "b", "c", "d", "e"} |->
               CASE v = "a" -> 4 [] v = "b" -> 2 [] v = "c" -> -2
                 [] v = "d" -> 3 [] v = "e" -> -1]

Fwd == "forward_selection"
Bwd == "backward_elimination"
Fns == {Fwd, Bwd}

\* Python's None, as a removed-variable name and as an unset local.
None == "None"
Unset == <<>>

VARIABLES
  variables,       \* the input list of variable names
  sc,              \* the scorer: score of a model trained on a set of variables
  maps,            \* per-variable weights when the scorer is the weight sum, else <<>>
  es_pc,           \* exhaustive_search: position
  nvariables,      \* exhaustive_search: size of the current outer iteration
  combos,          \* exhaustive_search: combinations the inner loop has still to visit
  best,            \* exhaustive_search: Optional[ExhaustiveSearchResult], <<>> or <<r>>
  result,          \* exhaustive_search: the result list
  evaluated,       \* exhaustive_search: the train/score calls made, in order
  pc,              \* forward/backward: position, per function
  best_variables,  \* forward/backward: local best_variables, per function
  best_model,      \* forward/backward: local best_model, per function
  best_score,      \* forward/backward: local best_score, per function
  rounds,          \* forward/backward: executions of the while body, per function
  calls,           \* forward/backward: the train/score calls made, per function
  tied             \* forward/backward: some round's winning removal tied with another removal

vars == <<variables, sc, maps, es_pc, nvariables, combos, best, result, evaluated,
          pc, best_variables, best_model, best_score, rounds, calls, tied>>
es_vars == <<es_pc, nvariables, combos, best, result, evaluated>>
sel_vars == <<pc, best_variables, best_model, best_score, rounds, calls, tied>>
input_vars == <<variables, sc, maps>>

\* ----------------------------------------------------------------- helpers
Range(s) == {s[i] : i \in 1..Len(s)}

\* set(variables)
set(s) == Range(s)

\* len() of a set
len(S) == Cardinality(S)

\* All iteration orders a set may be walked in.
Perms(S) == {p \in [1..Cardinality(S) -> S] : \A i, j \in 1..Cardinality(S) : p[i] = p[j] => i = j}

\* The sub-lists of s that keep its order (one per subset of positions).
RECURSIVE SubLists(_)
SubLists(s) ==
  IF s = <<>> THEN {<<>>}
  ELSE LET rest == SubLists(Tail(s))
       IN rest \cup {<<Head(s)>> \o r : r \in rest}

RECURSIVE SumOver(_, _)
SumOver(m, S) ==
  IF S = {} THEN 0
  ELSE LET v == CHOOSE x \in S : TRUE IN m[v] + SumOver(m, S \ {v})

\* train_model of the unit test: the model names the variables it was trained on.
train_model(vs) == [Model |-> vs]

\* score_model: a deterministic function of the variables it is handed (the model is
\* ignored, as in the unit test).
score_model(model, vs) == sc[vs]

\* score_model of the unit test: minus the sum of the weights.
weight_score(m, vs) == 0 - SumOver(m, vs)

\* Step(score, variable, model)
Step(score, variable, model) == [score |-> score, variable |-> variable, model |-> model]

\* list.sort(key=...) is stable: equal keys keep their relative order.
RECURSIVE insert_stable(_, _)
insert_stable(sorted, s) ==
  IF sorted = <<>> THEN <<s>>
  ELSE IF Head(sorted).score <= s.score
       THEN <<Head(sorted)>> \o insert_stable(Tail(sorted), s)
       ELSE <<s>> \o sorted

RECURSIVE sort_from(_, _)
sort_from(acc, rest) ==
  IF rest = <<>> THEN acc ELSE sort_from(insert_stable(acc, Head(rest)), Tail(rest))

sort_by_score(steps) == sort_from(<<>>, steps)

RECURSIVE insert_before_equal(_, _)
insert_before_equal(sorted, s) ==
  IF sorted = <<>> THEN <<s>>
  ELSE IF Head(sorted).score < s.score
       THEN <<Head(sorted)>> \o insert_before_equal(Tail(sorted), s)
       ELSE <<s>> \o sorted

RECURSIVE sort_unstable_from(_, _)
sort_unstable_from(acc, rest) ==
  IF rest = <<>> THEN acc
  ELSE sort_unstable_from(insert_before_equal(acc, Head(rest)), Tail(rest))

sort_unstable(steps) == sort_unstable_from(<<>>, steps)

\* Of sorted steps: the winner removes a variable and another removal has the same
\* score, so that the set's iteration order alone decided which variable goes.
ambiguous(steps) ==
  /\ steps[1].variable # None
  /\ Len(steps) > 1
  /\ steps[2].variable # None
  /\ steps[2].score = steps[1].score

\* --------------------------------------------------------- forward_selection
\* Variant: the loop runs while any variable is left (>= 1 instead of > 1).
forward_while_nonempty(bv) == len(bv) > 0

\* while len(best_variables) > 1
forward_while(bv) == len(bv) > 1

\* Variant: the candidate's model is trained before the variable is removed.
forward_candidate_stale(bv, remove_var) ==
  LET step_vars == bv \ {remove_var}
      step_model == train_model(bv)
      step_score == score_model(step_model, step_vars)
  IN [step |-> Step(step_score, remove_var, step_model),
      call |-> [trained |-> bv, model |-> step_model, scored |-> step_vars]]

\* One removal candidate of a round: the Step appended, and the train/score call made.
forward_candidate(bv, remove_var) ==
  LET step_vars == bv \ {remove_var}
      step_model == train_model(step_vars)
      step_score == score_model(step_model, step_vars)
  IN [step |-> Step(step_score, remove_var, step_model),
      call |-> [trained |-> step_vars, model |-> step_model, scored |-> step_vars]]

\* Variant: the 'no removal' step is left out of the candidates.
forward_steps_no_fallback(bs, bm, bv, order) ==
  [i \in 1..Len(order) |-> Step(score_model(train_model(bv \ {order[i]}), bv \ {order[i]}),
                                order[i], train_model(bv \ {order[i]}))]

\* steps = [Step(best_score, None, best_model)] + one Step per variable, in iteration order
forward_steps(bs, bm, bv, order) ==
  <<Step(bs, None, bm)>> \o [i \in 1..Len(order) |-> forward_candidate(bv, order[i]).step]

\* Variant: a sort that puts a step before the earlier steps of equal score.
forward_sort_unstable(steps) == sort_unstable(steps)

\* steps.sort(key=lambda x: x[0])
forward_sort(steps) == sort_by_score(steps)

\* The program is single-threaded: a call starts only while no other call is running.
forward_selection_start ==
  /\ pc[Fwd] = "start"
  /\ pc[Bwd] # "while"
  /\ LET bv == set(variables)
         bm == train_model(bv)
     IN /\ best_variables' = [best_variables EXCEPT ![Fwd] = bv]
        /\ best_model' = [best_model EXCEPT ![Fwd] = bm]
        /\ best_score' = [best_score EXCEPT ![Fwd] = score_model(bm, bv)]
        /\ calls' = [calls EXCEPT ![Fwd] = {[trained |-> bv, model |-> bm, scored |-> bv]}]
  /\ pc' = [pc EXCEPT ![Fwd] = "while"]
  /\ UNCHANGED <<rounds, tied, es_vars, input_vars>>

forward_selection_round ==
  /\ pc[Fwd] = "while"
  /\ forward_while(best_variables[Fwd])
  /\ \E order \in Perms(best_variables[Fwd]) :
       \E steps \in {forward_sort(forward_steps(best_score[Fwd], best_model[Fwd], best_variables[Fwd], order))} :
       LET bv == best_variables[Fwd]
           removed_step == steps[1].variable
       IN /\ best_score' = [best_score EXCEPT ![Fwd] = steps[1].score]
          /\ best_model' = [best_model EXCEPT ![Fwd] = steps[1].model]
          /\ calls' = [calls EXCEPT ![Fwd] = @ \cup {forward_candidate(bv, v).call : v \in bv}]
          /\ tied' = [tied EXCEPT ![Fwd] = @ \/ ambiguous(steps)]
          /\ rounds' = [rounds EXCEPT ![Fwd] = @ + 1]
          /\ IF removed_step = None
             THEN /\ pc' = [pc EXCEPT ![Fwd] = "done"]
                  /\ UNCHANGED best_variables
             ELSE /\ best_variables' = [best_variables EXCEPT ![Fwd] = bv \ {removed_step}]
                  /\ UNCHANGED pc
  /\ UNCHANGED <<es_vars, input_vars>>

forward_selection_return ==
  /\ pc[Fwd] = "while"
  /\ ~forward_while(best_variables[Fwd])
  /\ pc' = [pc EXCEPT ![Fwd] = "done"]
  /\ UNCHANGED <<best_variables, best_model, best_score, rounds, calls, tied,
                 es_vars, input_vars>>

\* ------------------------------------------------------ backward_elimination
\* Variant: the loop stops one variable early (> 2 instead of > 1).
backward_while_early(bv) == len(bv) > 2

\* while len(best_variables) > 1
backward_while(bv) == len(bv) > 1

backward_candidate(bv, remove_var) ==
  LET step_vars == bv \ {remove_var}
      step_model == train_model(step_vars)
      step_score == score_model(step_model, step_vars)
  IN [step |-> Step(step_score, remove_var, step_model),
      call |-> [trained |-> step_vars, model |-> step_model, scored |-> step_vars]]

backward_steps(bs, bm, bv, order) ==
  <<Step(bs, None, bm)>> \o [i \in 1..Len(order) |-> backward_candidate(bv, order[i]).step]

\* sort by ascending score
backward_sort(steps) == sort_by_score(steps)

backward_elimination_start ==
  /\ pc[Bwd] = "start"
  /\ pc[Fwd] # "while"
  /\ LET bv == set(variables)
         bm == train_model(bv)
     IN /\ best_variables' = [best_variables EXCEPT ![Bwd] = bv]
        /\ best_model' = [best_model EXCEPT ![Bwd] = bm]
        /\ best_score' = [best_score EXCEPT ![Bwd] = score_model(bm, bv)]
        /\ calls' = [calls EXCEPT ![Bwd] = {[trained |-> bv, model |-> bm, scored |-> bv]}]
  /\ pc' = [pc EXCEPT ![Bwd] = "while"]
  /\ UNCHANGED <<rounds, tied, es_vars, input_vars>>

backward_elimination_round ==
  /\ pc[Bwd] = "while"
  /\ backward_while(best_variables[Bwd])
  /\ \E order \in Perms(best_variables[Bwd]) :
       \E steps \in {backward_sort(backward_steps(best_score[Bwd], best_model[Bwd], best_variables[Bwd], order))} :
       LET bv == best_variables[Bwd]
           removed_step == steps[1].variable
       IN /\ best_score' = [best_score EXCEPT ![Bwd] = steps[1].score]
          /\ best_model' = [best_model EXCEPT ![Bwd] = steps[1].model]
          /\ calls' = [calls EXCEPT ![Bwd] = @ \cup {backward_candidate(bv, v).call : v \in bv}]
          /\ tied' = [tied EXCEPT ![Bwd] = @ \/ ambiguous(steps)]
          /\ rounds' = [rounds EXCEPT ![Bwd] = @ + 1]
          /\ IF removed_step = None
             THEN /\ pc' = [pc EXCEPT ![Bwd] = "done"]
                  /\ UNCHANGED best_variables
             ELSE /\ best_variables' = [best_variables EXCEPT ![Bwd] = bv \ {removed_step}]
                  /\ UNCHANGED pc
  /\ UNCHANGED <<es_vars, input_vars>>

backward_elimination_return ==
  /\ pc[Bwd] = "while"
  /\ ~backward_while(best_variables[Bwd])
  /\ pc' = [pc EXCEPT ![Bwd] = "done"]
  /\ UNCHANGED <<best_variables, best_model, best_score, rounds, calls, tied,
                 es_vars, input_vars>>

\* --------------------------------------------------------- exhaustive_search
\* itertools.combinations(variables, k): the k-element sub-lists of variables, in
\* lexicographic order of the positions they take.
RECURSIVE combinations(_, _)
combinations(s, k) ==
  IF k = 0 THEN <<<<>>>>
  ELSE IF Len(s) < k THEN <<>>
  ELSE LET with_head == combinations(Tail(s), k - 1)
       IN [i \in 1..Len(with_head) |-> <<Head(s)>> \o with_head[i]] \o combinations(Tail(s), k)

\* Variant: range(1, len(variables)), which leaves the full size out.
last_size_short(vs) == Len(vs) - 1

\* Variant: a range that always holds size 1, also for an empty list.
last_size_at_least_one(vs) == IF Len(vs) = 0 THEN 1 ELSE Len(vs)

\* range(1, len(variables) + 1): its last element
last_size(vs) == Len(vs)

\* Variant: the comparison turned round, which keeps the highest score.
replaces_best_highest(b, subset_score) == b = <<>> \/ b[1].score < subset_score

\* best is None or best['score'] > subset_score
replaces_best(b, subset_score) == b = <<>> \/ b[1].score > subset_score

\* ExhaustiveSearchResult(n=..., variables=..., score=..., model=...)
ExhaustiveSearchResult(n, vs, score, model) ==
  [n |-> n, variables |-> vs, score |-> score, model |-> model]

\* result = []
exhaustive_search_start ==
  /\ es_pc = "start"
  /\ result' = <<>>
  /\ nvariables' = 0
  /\ es_pc' = "for_nvariables"
  /\ UNCHANGED <<combos, best, evaluated, sel_vars, input_vars>>

\* for nvariables in range(...): the next size, or return result once the range is spent
exhaustive_search_next_size ==
  /\ es_pc = "for_nvariables"
  /\ IF nvariables < last_size(variables)
     THEN /\ nvariables' = nvariables + 1
          /\ best' = <<>>
          /\ combos' = combinations(variables, nvariables + 1)
          /\ es_pc' = "for_varcombo"
     ELSE /\ es_pc' = "done"
          /\ UNCHANGED <<nvariables, best, combos>>
  /\ UNCHANGED <<result, evaluated, sel_vars, input_vars>>

\* the body of the inner loop, for the next combination
exhaustive_search_combination ==
  /\ es_pc = "for_varcombo"
  /\ combos # <<>>
  /\ LET subset == Head(combos)
         subset_model == train_model(subset)
         subset_score == score_model(subset_model, subset)
     IN /\ evaluated' = Append(evaluated,
                               [trained |-> subset, model |-> subset_model, scored |-> subset])
        /\ best' = IF replaces_best(best, subset_score)
                   THEN <<ExhaustiveSearchResult(nvariables, subset, subset_score, subset_model)>>
                   ELSE best
  /\ combos' = Tail(combos)
  /\ UNCHANGED <<es_pc, nvariables, result, sel_vars, input_vars>>

\* assert best is not None; result.append(best)
exhaustive_search_append ==
  /\ es_pc = "for_varcombo"
  /\ combos = <<>>
  /\ IF best = <<>>
     THEN /\ es_pc' = "AssertionError"
          /\ UNCHANGED result
     ELSE /\ result' = Append(result, best[1])
          /\ es_pc' = "for_nvariables"
  /\ UNCHANGED <<nvariables, combos, best, evaluated, sel_vars, input_vars>>

\* ------------------------------------------------------------ specifications
\* The locals of the three functions before any of them is called.
InitLocals ==
  /\ es_pc = "start" /\ nvariables = 0 /\ combos = <<>> /\ best = <<>>
  /\ result = <<>> /\ evaluated = <<>>
  /\ pc = [f \in Fns |-> "start"]
  /\ best_variables = [f \in Fns |-> {}]
  /\ best_model = [f \in Fns |-> Unset]
  /\ best_score = [f \in Fns |-> Unset]
  /\ rounds = [f \in Fns |-> 0]
  /\ calls = [f \in Fns |-> {}]
  /\ tied = [f \in Fns |-> FALSE]

\* Scorers over the sets D: any score for a non-empty set; the empty set is scored
\* freely only when it is the input itself.
Scorers(D, empty) ==
  {s \in [D -> 0..MaxScore] : (D # {empty}) => s[empty] = 0}

\* forward_selection and backward_elimination called on the same variables with the
\* same scorer.
Init ==
  /\ variables \in SubLists(VarList)
  /\ sc \in Scorers(SUBSET set(variables), {})
  /\ maps = <<>>
  /\ InitLocals

Next ==
  \/ forward_selection_start
  \/ forward_selection_round
  \/ forward_selection_return
  \/ backward_elimination_start
  \/ backward_elimination_round
  \/ backward_elimination_return

Spec == Init /\ [][Next]_vars

\* All lists of distinct names drawn from VarList, in any order.
DistinctLists == UNION {Perms(set(l)) : l \in SubLists(VarList)}

\* exhaustive_search called on a list of distinct variables.
InitES ==
  /\ variables \in DistinctLists
  /\ sc \in Scorers(SubLists(variables), <<>>)
  /\ maps = <<>>
  /\ InitLocals

NextES ==
  \/ exhaustive_search_start
  \/ exhaustive_search_next_size
  \/ exhaustive_search_combination
  \/ exhaustive_search_append

SpecES == InitES /\ [][NextES]_vars

\* Weights of a weight-sum input.
Weights == (0 - MaxWeight)..MaxWeight

\* backward_elimination called with the unit test's scorer: the test's own input, or up
\* to MaxWVars of its variables with any weights.
InitW ==
  /\ \/ /\ variables = TestVariables
        /\ maps = TestMaps
     \/ /\ variables \in {l \in SubLists(TestVariables) : Len(l) <= MaxWVars}
        /\ maps \in [set(variables) -> Weights]
  /\ sc = [vs \in SUBSET set(variables) |-> weight_score(maps, vs)]
  /\ InitLocals

NextW ==
  \/ backward_elimination_start
  \/ backward_elimination_round
  \/ backward_elimination_return

SpecW == InitW /\ [][NextW]_vars

\* ------------------------------------------------------------------- claims
\* C1: for every list of n distinct variables, exhaustive_search trains and scores
\* exactly 2^n - 1 combinations, every non-empty combination once and none twice, and
\* returns n results in increasing size, the k-th with n = k and k distinct input
\* variables.
C1_ExhaustiveCompleteness ==
  es_pc = "done" =>
    LET n == Len(variables)
        E == 1..Len(evaluated)
    IN /\ Len(evaluated) = 2^n - 1
       /\ \A i, j \in E : Range(evaluated[i].scored) = Range(evaluated[j].scored) => i = j
       /\ {Range(evaluated[i].scored) : i \in E} = (SUBSET set(variables)) \ {{}}
       /\ \A i \in E : /\ evaluated[i].trained = evaluated[i].scored
                       /\ evaluated[i].scored \in SubLists(variables)
       /\ Len(result) = n
       /\ \A k \in 1..n :
            k \in DOMAIN result =>
              /\ result[k].n = k
              /\ Len(result[k].variables) = k
              /\ Cardinality(Range(result[k].variables)) = k
              /\ Range(result[k].variables) \subseteq set(variables)

C1_Witness ==
  /\ es_pc = "done"
  /\ Len(variables) = 3
  /\ Len(evaluated) = 7
  /\ Len(result) = 3

\* C2: for every size k, the result of size k scores no higher than any size-k
\* combination of the input, and its score is the score of the variables and model
\* stored in the same result.
C2_OptimalPerSize ==
  es_pc = "done" =>
    /\ Len(result) = Len(variables)
    /\ \A k \in 1..Len(result) :
         /\ \A c \in SubLists(variables) : Len(c) = k => result[k].score <= sc[c]
         /\ result[k].model = train_model(result[k].variables)
         /\ result[k].score = score_model(result[k].model, result[k].variables)

\* A later combination of size 2 beat the first one, and another one scores higher.
C2_Witness ==
  /\ es_pc = "done"
  /\ Len(variables) = 3
  /\ result[2].variables # combinations(variables, 2)[1]
  /\ \E c \in SubLists(variables) : Len(c) = 2 /\ result[2].score < sc[c]

\* The weights meet C3's condition: none is zero and one is positive.
WeightsInScope ==
  /\ \A v \in set(variables) : maps[v] # 0
  /\ \E v \in set(variables) : maps[v] > 0

\* C3: with integer weights, none zero and one positive, and score = minus the sum of
\* the weights, backward_elimination returns exactly the variables of positive weight
\* ({a, b, d} for the unit test's weights), whatever the iteration order.
C3_PositiveWeightSubset ==
  (pc[Bwd] = "done" /\ WeightsInScope) =>
    /\ best_variables[Bwd] = {v \in set(variables) : maps[v] > 0}
    /\ (variables = TestVariables /\ maps = TestMaps) => best_variables[Bwd] = {"a", "b", "d"}

C3_Witness ==
  /\ pc[Bwd] = "done"
  /\ variables = TestVariables
  /\ maps = TestMaps
  /\ rounds[Bwd] = 3
  /\ best_variables[Bwd] = {"a", "b", "d"}

\* C4: on every exit path of forward_selection and backward_elimination, the returned
\* best_model is what train_model returned for a call on exactly the returned
\* best_variables.
C4_ModelTrainedOnResult ==
  \A f \in Fns :
    pc[f] = "done" =>
      \E c \in calls[f] : c.model = best_model[f] /\ c.trained = best_variables[f]

\* One call stopped on 'no removal' after a removal, the other ran down to one variable.
C4_Witness ==
  /\ pc[Fwd] = "done" /\ pc[Bwd] = "done"
  /\ rounds[Fwd] = 2 /\ len(best_variables[Fwd]) = 2
  /\ rounds[Bwd] = 2 /\ len(best_variables[Bwd]) = 1

\* C5 as stated: with the same variables and the same deterministic callbacks,
\* forward_selection and backward_elimination return the same best_variables and the
\* same final score.
C5_SameResult ==
  (pc[Fwd] = "done" /\ pc[Bwd] = "done") =>
    /\ best_variables[Fwd] = best_variables[Bwd]
    /\ best_score[Fwd] = best_score[Bwd]

\* C5 amended: the two return the same best_variables and the same final score when in
\* no round of either call two removal candidates tied for the winning score.
C5_SameResultWithoutTies ==
  (pc[Fwd] = "done" /\ pc[Bwd] = "done" /\ ~tied[Fwd] /\ ~tied[Bwd]) =>
    /\ best_variables[Fwd] = best_variables[Bwd]
    /\ best_score[Fwd] = best_score[Bwd]
    /\ best_model[Fwd] = best_model[Bwd]

C5_Witness ==
  /\ pc[Fwd] = "done" /\ pc[Bwd] = "done"
  /\ ~tied[Fwd] /\ ~tied[Bwd]
  /\ rounds[Fwd] = 2
  /\ best_variables[Fwd] # set(variables)
  /\ best_variables[Fwd] = best_variables[Bwd]

\* C6 as stated: for every input the loop ends after at most |variables| - 1 rounds.
C6_RoundsBelowSize ==
  \A f \in Fns : pc[f] = "done" => rounds[f] <= Len(variables) - 1

RoundsBound ==
  \A f \in Fns :
    /\ variables # <<>> => rounds[f] <= Len(variables) - 1
    /\ variables = <<>> => rounds[f] = 0
    /\ (Len(variables) = 1 /\ pc[f] = "done") =>
         rounds[f] = 0 /\ best_variables[f] = set(variables)

\* C6 amended: both loops terminate, after at most |variables| - 1 rounds for a
\* non-empty input and after no round for an empty one; with exactly one variable no
\* round is executed and that variable is returned. Termination: the rounds are
\* bounded, each round that does not end the loop has removed one variable, and a call
\* that has not returned can always take its next step.
C6_Termination ==
  /\ RoundsBound
  /\ \A f \in Fns :
       pc[f] = "while" => rounds[f] + len(best_variables[f]) = len(set(variables))
  /\ (\A f \in Fns : pc[f] = "done") \/ ENABLED Next

C6_Witness ==
  /\ pc[Fwd] = "done"
  /\ Len(variables) = 3
  /\ rounds[Fwd] = 2
  /\ len(best_variables[Fwd]) = 1

\* C7: best_score never increases from one round to the next, starting from the score
\* of the full variable set.
C7_ScoreNeverIncreases ==
  /\ [][\A f \in Fns : pc[f] = "while" => best_score'[f] <= best_score[f]]_vars
  /\ [](\A f \in Fns : pc[f] # "start" => best_score[f] <= sc[set(variables)])

\* Two rounds have each lowered the score.
C7_Witness ==
  /\ pc[Fwd] = "done"
  /\ rounds[Fwd] = 2
  /\ len(best_variables[Fwd]) = 1
  /\ best_score[Fwd] + 2 <= sc[set(variables)]

\* C8 as stated: exhaustive_search on an empty list fails with an assertion error
\* instead of returning a result.
C8_EmptyInputFails ==
  (variables = <<>> /\ es_pc \in {"done", "AssertionError"}) => es_pc = "AssertionError"

\* C8 amended: exhaustive_search on an empty list returns an empty result list, with no
\* combination trained or scored and no assertion failure.
C8_EmptyInputReturnsEmpty ==
  variables = <<>> =>
    /\ es_pc # "AssertionError"
    /\ es_pc = "done" => (result = <<>> /\ evaluated = <<>>)

C8_Witness ==
  /\ variables = <<>>
  /\ es_pc = "done"
  /\ result = <<>>

\* C9 as stated: for every input, no score_model call of forward_selection or
\* backward_elimination receives the empty variable set.
C9_NeverScoresEmpty ==
  \A f \in Fns : \A c \in calls[f] : c.scored # {}

\* C9 amended: for every non-empty input, no score_model call of forward_selection or
\* backward_elimination receives the empty variable set.
C9_NeverScoresEmptyOnNonEmptyInput ==
  variables # <<>> => \A f \in Fns : \A c \in calls[f] : c.scored # {}

\* A call that ran down to a single variable, having scored single-variable candidates.
C9_Witness ==
  /\ variables # <<>>
  /\ pc[Fwd] = "done"
  /\ len(best_variables[Fwd]) = 1
  /\ rounds[Fwd] >= 1
  /\ \E c \in calls[Fwd] : len(c.scored) = 1

\* The score of bv with the single variable x removed.
RemovalScore(bv, x) == sc[bv \ {x}]

\* C10: a round removes a variable only when the set without it scores strictly lower
\* than the current best_score and no other candidate scores lower; when no removal
\* scores strictly lower, 'no removal' wins and the search stops; hence a returned set
\* of more than one variable has no single-variable removal that scores strictly lower.
C10_RemoveOnlyOnStrictImprovement ==
  /\ [][\A f \in Fns :
          (pc[f] = "while" /\ rounds'[f] = rounds[f] + 1) =>
            LET bv == best_variables[f]
                bs == best_score[f]
            IN /\ best_variables'[f] # bv =>
                    \E r \in bv : /\ best_variables'[f] = bv \ {r}
                                  /\ RemovalScore(bv, r) < bs
                                  /\ \A x \in bv : RemovalScore(bv, r) <= RemovalScore(bv, x)
                                  /\ best_score'[f] = RemovalScore(bv, r)
               /\ (\A x \in bv : RemovalScore(bv, x) >= bs) =>
                    /\ best_variables'[f] = bv
                    /\ best_score'[f] = bs
                    /\ pc'[f] = "done"]_vars
  /\ [](\A f \in Fns :
          (pc[f] = "done" /\ len(best_variables[f]) > 1) =>
            /\ best_score[f] = sc[best_variables[f]]
            /\ \A x \in best_variables[f] :
                 RemovalScore(best_variables[f], x) >= sc[best_variables[f]])

\* A search that stopped because the lowest removal only equalled the current score.
C10_Witness ==
  /\ pc[Fwd] = "done"
  /\ rounds[Fwd] = 2
  /\ len(best_variables[Fwd]) = 2
  /\ \E x \in best_variables[Fwd] :
       RemovalScore(best_variables[Fwd], x) = best_score[Fwd]

====
